---- MODULE Spec2Model ----
(***************************************************************************)
(* The in-memory virtual filesystem of pandorasbox (vfs/vfs.go): the       *)
(* facade FileSystem over the inode tree, the inode allocator, the sealed  *)
(* payload store and the symlink table.                                    *)
(*                                                                         *)
(* A path string is the record [abs, segs]: whether it starts with "/" and *)
(* its non-empty segments.  An inode pointer is an index into nodes.       *)
(* Mode bits are a set of bit names, so that & is \cap and | is \cup.      *)
(***************************************************************************)
EXTENDS Integers, Sequences, FiniteSets, TLC

VARIABLES nodes, cwd, dir, ino, symlinks, data, mtx, bufs, halted, last, pc

vars == <<nodes, cwd, dir, ino, symlinks, data, mtx, bufs, halted, last, pc>>

(* ------------------------------ bounds -------------------------------- *)

\* no operation is started that would take the allocator past this number
MaxIno == 3

\* a call that leaves a lock held or a key buffer open is followed as long as
\* no more than MaxLeak of either are left behind
MaxLeak == 1

\* inodes ever allocated, the root included, when goroutines run in parallel
\* (a number that is rolled back leaves its inode behind)
MaxHeap == 5

(* ---------------------------- path strings ---------------------------- *)

Path(a, s) == [abs |-> a, segs |-> s]

RootPath == Path(TRUE, <<>>)

DotPath == Path(FALSE, <<".">>)

EmptyPath == Path(FALSE, <<>>)

Front(s) == SubSeq(s, 1, Len(s) - 1)

Last(s) == s[Len(s)]

IsAbs(p) == p.abs

RECURSIVE CleanSegs(_, _, _)
CleanSegs(a, in, out) ==
    IF in = <<>> THEN out
    ELSE LET h == Head(in)
             t == Tail(in)
         IN  IF h = "." THEN CleanSegs(a, t, out)
             ELSE IF h = ".."
                  THEN IF out # <<>> /\ Last(out) # ".."
                       THEN CleanSegs(a, t, Front(out))
                       ELSE IF a THEN CleanSegs(a, t, out)
                            ELSE CleanSegs(a, t, Append(out, ".."))
                  ELSE CleanSegs(a, t, Append(out, h))

Clean(p) ==
    LET o == CleanSegs(p.abs, p.segs, <<>>)
    IN  IF ~p.abs /\ o = <<>> THEN DotPath ELSE Path(p.abs, o)

\* Split(path) = (dir, file): dir is everything up to the final separator
Split(p) ==
    IF p.segs = <<>> THEN [dir |-> p, file |-> ""]
    ELSE [dir |-> Path(p.abs, Front(p.segs)), file |-> Last(p.segs)]

Join(a, b) ==
    IF a = EmptyPath /\ b = EmptyPath THEN EmptyPath
    ELSE Clean(Path(IF a = EmptyPath THEN b.abs ELSE a.abs, a.segs \o b.segs))

Dir(p) == Clean(Split(p).dir)

\* strings.TrimLeft(p, "/")
TrimLeft(p) == Path(FALSE, p.segs)

\* inode.Abs(cwd, path)
Abs(c, p) == IF IsAbs(p) THEN Clean(p) ELSE Join(c, p)

(* ------------------------------ mode bits ----------------------------- *)

ModeDir == {"dir"}

ModeSymlink == {"symlink"}

OS_ALL_R == {"ur", "gr", "or"}

OS_ALL_W == {"uw", "gw", "ow"}

\* 0755
Umask == {"ur", "uw", "ux", "gr", "gx", "or", "ox"}

(* ------------------------------- inodes ------------------------------- *)

Root == 1

NoNode == 0

IsDir(n) == n.Mode \cap ModeDir # {}

IsSymlink(n) == n.Mode \cap ModeSymlink # {}

Entry(name, child) == [x \in {name} |-> child]

EmptyDir == [x \in {} |-> NoNode]

\* Ino.New(mode): the inode the allocator hands out once it has counted to i
New(i, mode) ==
    [Ino |-> i, Mode |-> mode, Size |-> 0, Uid |-> 0, Gid |-> 0, Dir |-> EmptyDir]

\* Ino.NewDir(mode), to be stored at address self
NewDir(i, mode, self) ==
    [Ino |-> i, Mode |-> ModeDir \cup mode, Size |-> 0, Uid |-> 0, Gid |-> 0,
     Dir |-> Entry(".", self) @@ Entry("..", self)]

\* n.Link(name, child) on the heap ns
Link(ns, n, name, child) ==
    IF name \in DOMAIN ns[n].Dir
    THEN [err |-> "EXISTS", nodes |-> ns]
    ELSE [err |-> "",
          nodes |-> [ns EXCEPT ![n].Dir = @ @@ Entry(name, child)]]

Without(d, name) == [x \in (DOMAIN d) \ {name} |-> d[x]]

\* n.Unlink(name)
Unlink(ns, n, name) ==
    IF name \notin DOMAIN ns[n].Dir
    THEN [err |-> "NO_SUCH_ENTRY", nodes |-> ns]
    ELSE [err |-> "", nodes |-> [ns EXCEPT ![n].Dir = Without(@, name)]]

RECURSIVE ResolveFrom(_, _, _)
ResolveFrom(ns, cur, segs) ==
    IF segs = <<>> THEN [err |-> "", node |-> cur]
    ELSE IF ~IsDir(ns[cur]) THEN [err |-> "NOT_A_DIRECTORY", node |-> NoNode]
    ELSE IF Head(segs) \notin DOMAIN ns[cur].Dir
         THEN [err |-> "NO_SUCH_ENTRY", node |-> NoNode]
         ELSE ResolveFrom(ns, ns[cur].Dir[Head(segs)], Tail(segs))

\* w.Resolve(path): an absolute path starts at the root, another at w
Resolve(ns, w, p) == ResolveFrom(ns, IF p.abs THEN Root ELSE w, p.segs)

(* ------------------------- sealed payload store ----------------------- *)

NoCipher == [k |-> 0, pt |-> <<>>]

NoKey == [enclave |-> 0]

\* core.Encrypt(plaintext, key): opaque, and opened only by the same key
Encrypt(pt, k) == [k |-> k, pt |-> pt]

\* Buffer.Seal()
Seal(k) == [enclave |-> k]

\* a sync.RWMutex that nobody holds
Unlocked == [w |-> FALSE, r |-> 0]

\* sealedFile.f: the *File last bound to the record, by the node it is a
\* handle on, with the mutex of the handle; NoHandle is the nil pointer
Handle(node) == [node |-> node, mtx |-> Unlocked]

NoHandle == [node |-> 0, mtx |-> Unlocked]

\* a nil *sealedFile
NilFile == [nil |-> TRUE, ciphertext |-> NoCipher, key |-> NoKey, f |-> NoHandle]

\* &sealedFile{}
EmptyFile == [nil |-> FALSE, ciphertext |-> NoCipher, key |-> NoKey, f |-> NoHandle]

\* fs.data[i] is in range
InRange(d, i) == i + 1 <= Len(d)

\* fs.data[i]
DataAt(d, i) == d[i + 1]

(* ------------------------------ the facade ---------------------------- *)

\* the FileSystem value, as the operations below take and return it
FS == [nodes |-> nodes, cwd |-> cwd, dir |-> dir, ino |-> ino,
       symlinks |-> symlinks, data |-> data, mtx |-> mtx, bufs |-> bufs]

Ret(s, res) == [s |-> s, res |-> res]

\* NewFS()
NewFS ==
    [nodes |-> <<NewDir(1, Umask, Root)>>, cwd |-> RootPath, dir |-> Root,
     ino |-> 1, symlinks |-> [x \in {} |-> EmptyPath],
     data |-> <<NilFile, NilFile>>, mtx |-> Unlocked, bufs |-> 0]

Mkdir(s, name, perm) ==
    LET rel   == ~IsAbs(name)
        wd    == IF rel THEN s.dir ELSE Root
        abs   == IF rel THEN Join(s.cwd, name) ELSE name
        r     == Resolve(s.nodes, wd, name)
        sp    == Split(abs)
        d     == Clean(sp.dir)
        pr    == IF d # RootPath THEN Resolve(s.nodes, Root, TrimLeft(d))
                 ELSE [err |-> "", node |-> Root]
        i     == s.ino + 1
        addr  == Len(s.nodes) + 1
        child == NewDir(i, Umask \cap perm, addr)
        l1    == Link(Append(s.nodes, child), pr.node, sp.file, addr)
        l2    == Link(l1.nodes, addr, "..", pr.node)
    IN  IF r.err = "" THEN Ret(s, "EXISTS")
        ELSE IF pr.err # "" THEN Ret(s, pr.err)
        ELSE Ret([s EXCEPT !.nodes = IF l1.err = "" THEN l2.nodes ELSE s.nodes,
                           !.ino = i,
                           !.data = Append(@, EmptyFile)], "OK")

\* the paths MkdirAll hands to Mkdir: "/" for the empty first element of
\* strings.Split(name, "/"), then every prefix of name
RECURSIVE Prefixes(_, _)
Prefixes(p, n) ==
    IF n > Len(p.segs) THEN <<>>
    ELSE <<Path(TRUE, SubSeq(p.segs, 1, n))>> \o Prefixes(p, n + 1)

RECURSIVE MkdirEach(_, _, _)
MkdirEach(s, ps, perm) ==
    IF ps = <<>> THEN s
    ELSE MkdirEach(Mkdir(s, Head(ps), perm).s, Tail(ps), perm)

MkdirAll(s, name, perm) ==
    LET n  == Abs(s.cwd, name)
        ps == IF n.segs = <<>> THEN <<RootPath, RootPath>>
              ELSE <<RootPath>> \o Prefixes(n, 1)
    IN  Ret(MkdirEach(s, ps, perm), "OK")

O_RDONLY == "O_RDONLY"

O_WRONLY == "O_WRONLY"

O_RDWR == "O_RDWR"

\* the flag word of OpenFile: flag & O_ACCESS and the bits read from it
Flag(access, create, excl, trunc) ==
    [access |-> access, create |-> create, excl |-> excl, trunc |-> trunc]

\* lines 234-239: the access the mode bits deny
Denied(flag, mode) ==
    /\ ~flag.create
    /\ \/ flag.access = O_RDONLY /\ mode \cap OS_ALL_R = {}
       \/ flag.access = O_WRONLY /\ mode \cap OS_ALL_W = {}
       \/ flag.access = O_RDWR /\ mode \cap (OS_ALL_W \cup OS_ALL_R) = {}

\* lines 232-253: the handle is bound to fs.data[node.Ino] of state s1
OpenBind(s1, node, flag) ==
    LET idx == s1.nodes[node].Ino
        rec == DataAt(s1.data, idx)
    IN  IF ~InRange(s1.data, idx) THEN Ret(s1, "PANIC")
        ELSE IF Denied(flag, s1.nodes[node].Mode) THEN Ret(s1, "PERMISSION")
        ELSE IF rec.nil THEN Ret(s1, "OK")
        ELSE Ret([s1 EXCEPT !.nodes[node].Size = IF flag.trunc THEN 0 ELSE @,
                            !.data[idx + 1].f = Handle(node)], "OK")

\* lines 200-216: the path resolves to node
OpenExisting(s, node, flag) ==
    LET idx == s.nodes[node].Ino
    IN  IF flag.create /\ flag.excl THEN Ret(s, "EXISTS")
        ELSE IF IsDir(s.nodes[node]) /\ (flag.access # O_RDONLY \/ flag.trunc)
             THEN Ret(s, "IS_DIRECTORY")
        ELSE IF ~flag.trunc THEN OpenBind(s, node, flag)
        ELSE IF ~InRange(s.data, idx) \/ DataAt(s.data, idx).nil
             THEN Ret(s, "PANIC")
        ELSE OpenBind([s EXCEPT !.data[idx + 1].ciphertext = NoCipher,
                                !.data[idx + 1].key = NoKey], node, flag)

\* lines 217-231: the path does not resolve and O_CREATE is set
OpenCreate(s, parent, filename, flag, perm) ==
    LET i    == s.ino + 1
        addr == Len(s.nodes) + 1
        l    == Link(Append(s.nodes, New(i, Umask \cap perm)), parent, filename, addr)
    IN  IF l.err # "" THEN Ret(s, l.err)
        ELSE OpenBind([s EXCEPT !.nodes = l.nodes, !.ino = i,
                                !.data = Append(@, EmptyFile)], addr, flag)

OpenFile(s, name, flag, perm) ==
    LET wd == IF IsAbs(name) THEN Root ELSE s.dir
        r  == Resolve(s.nodes, wd, name)
        sp == Split(name)
        pr == Resolve(s.nodes, wd, Clean(sp.dir))
        di == s.nodes[s.dir].Ino
    IN  IF name = RootPath THEN Ret(s, "OK")
        ELSE IF name = DotPath
             THEN IF ~InRange(s.data, di) THEN Ret(s, "PANIC")
                  ELSE IF DataAt(s.data, di).nil THEN Ret(s, "OK")
                  ELSE Ret([s EXCEPT !.data[di + 1].f = Handle(s.dir)], "OK")
        ELSE IF pr.err # "" THEN Ret(s, pr.err)
        ELSE IF r.err # "" /\ ~flag.create THEN Ret(s, "NO_SUCH_ENTRY")
        ELSE IF r.err = "" THEN OpenExisting(s, r.node, flag)
        ELSE OpenCreate(s, pr.node, sp.file, flag, perm)

\* 0644
Perm0644 == {"ur", "uw", "gr", "or"}

Create(s, name) == OpenFile(s, name, Flag(O_RDWR, TRUE, FALSE, TRUE), Perm0644)

\* n.UnlinkAll(): the subtree below n is unlinked in post-order
RECURSIVE UnlinkAll(_, _)
UnlinkAll(ns, n) ==
    LET names == (DOMAIN ns[n].Dir) \ {".", ".."}
    IN  IF names = {} THEN ns
        ELSE LET x   == CHOOSE y \in names : TRUE
                 sub == UnlinkAll(ns, ns[n].Dir[x])
             IN  UnlinkAll([sub EXCEPT ![n].Dir = Without(@, x)], n)

\* lines 392-400 and 417-425: the directory that holds the entry of abs
ParentOf(s, abs) ==
    LET d == Clean(Split(abs).dir)
    IN  IF d # RootPath THEN Resolve(s.nodes, Root, TrimLeft(d))
        ELSE [err |-> "", node |-> Root]

\* Remove without the test of lines 386-390 for a directory with entries
Remove_NoEmptyTest(s, name) ==
    LET rel == ~IsAbs(name)
        wd  == IF rel THEN s.dir ELSE Root
        abs == IF rel THEN Join(s.cwd, name) ELSE name
        r   == Resolve(s.nodes, wd, name)
        pr  == ParentOf(s, abs)
        u   == Unlink(s.nodes, pr.node, Split(abs).file)
    IN  IF r.err # "" THEN Ret(s, r.err)
        ELSE IF pr.err # "" THEN Ret(s, pr.err)
        ELSE Ret([s EXCEPT !.nodes = u.nodes], IF u.err = "" THEN "OK" ELSE u.err)

Remove(s, name) ==
    LET rel == ~IsAbs(name)
        wd  == IF rel THEN s.dir ELSE Root
        abs == IF rel THEN Join(s.cwd, name) ELSE name
        r   == Resolve(s.nodes, wd, name)
        pr  == ParentOf(s, abs)
        u   == Unlink(s.nodes, pr.node, Split(abs).file)
    IN  IF r.err # "" THEN Ret(s, r.err)
        ELSE IF IsDir(s.nodes[r.node]) /\ Cardinality(DOMAIN s.nodes[r.node].Dir) > 2
             THEN Ret(s, "NOT_EMPTY")
        ELSE IF pr.err # "" THEN Ret(s, pr.err)
        ELSE Ret([s EXCEPT !.nodes = u.nodes], IF u.err = "" THEN "OK" ELSE u.err)

RemoveAll(s, name) ==
    LET rel == ~IsAbs(name)
        wd  == IF rel THEN s.dir ELSE Root
        abs == IF rel THEN Join(s.cwd, name) ELSE name
        r   == Resolve(s.nodes, wd, name)
        pr  == ParentOf(s, abs)
        u   == Unlink(UnlinkAll(s.nodes, r.node), pr.node, Split(abs).file)
    IN  IF r.err # "" THEN Ret(s, r.err)
        ELSE IF pr.err # "" THEN Ret(s, pr.err)
        ELSE Ret([s EXCEPT !.nodes = u.nodes], IF u.err = "" THEN "OK" ELSE u.err)

\* the inodes of the subtree of n, n included
RECURSIVE Subtree(_, _)
Subtree(ns, n) ==
    LET names == (DOMAIN ns[n].Dir) \ {".", ".."}
    IN  {n} \cup UNION {Subtree(ns, ns[n].Dir[x]) : x \in names}

\* root.Rename(oldpath, newpath) of package inode
InodeRename(ns, oldpath, newpath) ==
    LET o     == Clean(oldpath)
        n     == Clean(newpath)
        ro    == Resolve(ns, Root, o)
        po    == Resolve(ns, Root, Dir(o))
        rn    == Resolve(ns, Root, n)
        pn    == Resolve(ns, Root, Dir(n))
        moved == [ns EXCEPT ![po.node].Dir = Without(@, Last(o.segs))]
        done  == [moved EXCEPT ![pn.node].Dir =
                     Without(@, Last(n.segs)) @@ Entry(Last(n.segs), ro.node)]
    IN  IF o = RootPath THEN [err |-> "INVALID", nodes |-> ns]
        ELSE IF ro.err # "" THEN [err |-> ro.err, nodes |-> ns]
        ELSE IF pn.err # "" THEN [err |-> pn.err, nodes |-> ns]
        ELSE IF ~IsDir(ns[pn.node]) THEN [err |-> "NOT_A_DIRECTORY", nodes |-> ns]
        ELSE IF rn.err = "" /\ rn.node = ro.node THEN [err |-> "", nodes |-> ns]
        ELSE IF rn.err = "" /\ IsDir(ns[rn.node])
                /\ (DOMAIN ns[rn.node].Dir) \ {".", ".."} # {}
             THEN [err |-> "NOT_EMPTY", nodes |-> ns]
        ELSE IF rn.err = "" /\ IsDir(ns[rn.node]) /\ ~IsDir(ns[ro.node])
             THEN [err |-> "IS_DIRECTORY", nodes |-> ns]
        ELSE IF rn.err = "" /\ ~IsDir(ns[rn.node]) /\ IsDir(ns[ro.node])
             THEN [err |-> "NOT_A_DIRECTORY", nodes |-> ns]
        ELSE IF pn.node \in Subtree(ns, ro.node)
             THEN [err |-> "INVALID", nodes |-> ns]
        ELSE [err |-> "", nodes |-> done]

\* Rename with the error of root.Rename dropped
Rename_ErrDropped(s, oldpath, newpath) ==
    LET o == IF IsAbs(oldpath) THEN oldpath ELSE Join(s.cwd, oldpath)
        n == IF IsAbs(newpath) THEN newpath ELSE Join(s.cwd, newpath)
        r == InodeRename(s.nodes, o, n)
    IN  IF oldpath = RootPath THEN Ret(s, "INVALID")
        ELSE Ret([s EXCEPT !.nodes = r.nodes], "OK")

Rename(s, oldpath, newpath) ==
    LET o == IF IsAbs(oldpath) THEN oldpath ELSE Join(s.cwd, oldpath)
        n == IF IsAbs(newpath) THEN newpath ELSE Join(s.cwd, newpath)
        r == InodeRename(s.nodes, o, n)
    IN  IF oldpath = RootPath THEN Ret(s, "INVALID")
        ELSE Ret([s EXCEPT !.nodes = r.nodes], IF r.err = "" THEN "OK" ELSE r.err)

Chdir(s, d) ==
    LET rel == ~IsAbs(d)
        c   == IF rel THEN Join(s.cwd, d) ELSE d
        wd  == IF rel THEN s.dir ELSE Root
        r   == Resolve(s.nodes, wd, d)
    IN  IF d = RootPath THEN Ret([s EXCEPT !.cwd = RootPath, !.dir = Root], "OK")
        ELSE IF r.err # "" THEN Ret(s, r.err)
        ELSE IF ~IsDir(s.nodes[r.node]) THEN Ret(s, "NOT_A_DIRECTORY")
        ELSE Ret([s EXCEPT !.cwd = c, !.dir = r.node], "OK")

\* fs.symlinks[ino]: the zero value "" when the key is absent
Target(s, i) == IF i \in DOMAIN s.symlinks THEN s.symlinks[i] ELSE EmptyPath

StatRet(res, node) == [res |-> res, node |-> node]

\* fileStat(cwd, name).  The recursion has no bound of its own: called again
\* with arguments it was already called with, it never returns ("DIVERGE").
RECURSIVE fileStat(_, _, _, _)
fileStat(s, c, name, seen) ==
    LET a == Abs(c, name)
        n == IF a # RootPath THEN TrimLeft(a) ELSE a
        r == Resolve(s.nodes, Root, n)
    IN  IF <<c, name>> \in seen THEN StatRet("DIVERGE", NoNode)
        ELSE IF r.err # "" THEN StatRet(r.err, NoNode)
        ELSE IF ~IsSymlink(s.nodes[r.node]) THEN StatRet("OK", r.node)
        ELSE fileStat(s, Dir(n), Target(s, s.nodes[r.node].Ino),
                      seen \cup {<<c, name>>})

Stat(s, name) ==
    IF name = RootPath THEN StatRet("OK", Root)
    ELSE fileStat(s, s.cwd, name, {})

Lstat(s, name) ==
    LET r == Resolve(s.nodes, Root, TrimLeft(Abs(s.cwd, name)))
    IN  IF name = RootPath THEN StatRet("OK", Root)
        ELSE IF r.err # "" THEN StatRet(r.err, NoNode)
        ELSE StatRet("OK", r.node)

\* node.Uid = uint32(uid); node.Gid = uint32(gid)
Own(s, node, uid, gid) ==
    [s EXCEPT !.nodes[node].Uid = uid, !.nodes[node].Gid = gid]

Chown(s, name, uid, gid) ==
    LET a == Abs(s.cwd, name)
        r == IF a # RootPath THEN Resolve(s.nodes, Root, a)
             ELSE [err |-> "", node |-> Root]
    IN  IF r.err # "" THEN Ret(s, r.err)
        ELSE Ret(Own(s, r.node, uid, gid), "OK")

Lchown(s, name, uid, gid) ==
    LET r == Resolve(s.nodes, Root, TrimLeft(Abs(s.cwd, name)))
    IN  IF name = RootPath THEN Ret(Own(s, Root, uid, gid), "OK")
        ELSE IF r.err # "" THEN Ret(s, r.err)
        ELSE Ret(Own(s, r.node, uid, gid), "OK")

\* sync.RWMutex
RLock(m) == [m EXCEPT !.r = @ + 1]

\* Unlock of a mutex that is not locked for writing is a fatal error
UnlockFatal(m) == ~m.w

Unlock(m) == [m EXCEPT !.w = FALSE]

\* Readlink(name): [s, res, val]
Readlink(s, name) ==
    LET r  == IF name = RootPath THEN [err |-> "", node |-> Root]
              ELSE Resolve(s.nodes, Root, TrimLeft(name))
        m1 == RLock(s.mtx)
        v  == Target(s, s.nodes[r.node].Ino)
    IN  IF r.err # "" THEN [s |-> s, res |-> r.err, val |-> EmptyPath]
        ELSE IF UnlockFatal(m1)
             THEN [s |-> [s EXCEPT !.mtx = m1], res |-> "FATAL", val |-> EmptyPath]
             ELSE [s |-> [s EXCEPT !.mtx = Unlock(m1)], res |-> "OK", val |-> v]

Symlink(s, oldname, newname) ==
    LET wd   == IF IsAbs(newname) THEN Root ELSE s.dir
        rn   == Resolve(s.nodes, wd, newname)
        ro   == Resolve(s.nodes, wd, oldname)
        sp   == Split(newname)
        pr   == Resolve(s.nodes, wd, Clean(sp.dir))
        mode == s.nodes[ro.node].Mode \cup ModeSymlink
        i    == s.ino + 1
        addr == Len(s.nodes) + 1
        l    == Link(Append(s.nodes, New(i, mode)), pr.node, sp.file, addr)
    IN  IF rn.err = "" /\ ~IsSymlink(s.nodes[rn.node]) THEN Ret(s, "EXISTS")
        ELSE IF ro.err # "" THEN Ret(s, "NO_SUCH_ENTRY")
        ELSE IF rn.err = ""
             THEN Ret([s EXCEPT !.nodes[rn.node].Mode = mode,
                                !.symlinks = Entry(s.nodes[rn.node].Ino, oldname) @@ @],
                      "OK")
        ELSE IF pr.err # "" THEN Ret(s, pr.err)
        ELSE IF l.err # "" THEN Ret([s EXCEPT !.ino = i], l.err)
        ELSE Ret([s EXCEPT !.nodes = l.nodes, !.ino = i,
                           !.symlinks = Entry(i, oldname) @@ @], "OK")

\* File.Write through a handle on node: the whole plaintext b is encrypted
\* under the fresh key k, which is then sealed
Write(s, node, b, k) ==
    LET idx == s.nodes[node].Ino
    IN  IF DataAt(s.data, idx).f.mtx # Unlocked THEN Ret(s, "BLOCKED")
        ELSE Ret([s EXCEPT !.data[idx + 1].ciphertext = Encrypt(b, k),
                           !.data[idx + 1].key = Seal(k),
                           !.nodes[node].Size = Len(b)], "OK")

\* the file of node has a handle that a write can go through
HasHandle(s, node) ==
    /\ ~IsDir(s.nodes[node])
    /\ InRange(s.data, s.nodes[node].Ino)
    /\ DataAt(s.data, s.nodes[node].Ino).f.node = node

(* ------------------------------ Truncate ------------------------------ *)

\* a buffer of n bytes that starts with pt and is zero after it
Pad(pt, n) == [i \in 1..n |-> IF i <= Len(pt) THEN pt[i] ELSE 0]

\* lines 257-268: the index of the record that the name leads to
TruncFind(s, name, size) ==
    LET r == Resolve(s.nodes, Root, Abs(s.cwd, name))
    IN  IF size < 0 THEN [res |-> "CLOSED", idx |-> 0]
        ELSE IF r.err # "" THEN [res |-> r.err, idx |-> 0]
        ELSE IF ~InRange(s.data, s.nodes[r.node].Ino) THEN [res |-> "PANIC", idx |-> 0]
        ELSE [res |-> "", idx |-> s.nodes[r.node].Ino]

\* lines 270-286: the plaintext is read under the shared lock of the handle.
\* fault is what the locked-memory layer does to this call: "open" fails
\* key.Open(), "decrypt" fails core.Decrypt.  res "" is to go on with pt.
TruncRead(s, idx, size, fault) ==
    LET rec    == DataAt(s.data, idx)
        sz     == s.nodes[rec.f.node].Size
        locked == [s EXCEPT !.data[idx + 1].f.mtx = RLock(@)]
        opened == [locked EXCEPT !.bufs = @ + 1]
        bad    == \/ fault = "decrypt"
                  \/ rec.ciphertext.k # rec.key.enclave
                  \/ Len(rec.ciphertext.pt) > sz
    IN  IF rec.nil \/ rec.f.node = NoNode THEN [s |-> s, res |-> "PANIC", pt |-> <<>>]
        ELSE IF sz = 0
             THEN [s |-> s, res |-> IF size = 0 THEN "OK" ELSE "", pt |-> <<>>]
        ELSE IF rec.f.mtx.w THEN [s |-> s, res |-> "BLOCKED", pt |-> <<>>]
        ELSE IF rec.key = NoKey THEN [s |-> locked, res |-> "PANIC", pt |-> <<>>]
        ELSE IF fault = "open" THEN [s |-> locked, res |-> "INTERNAL", pt |-> <<>>]
        ELSE IF bad THEN [s |-> opened, res |-> "CORRUPTED_PAYLOAD", pt |-> <<>>]
        ELSE [s |-> s, res |-> "", pt |-> Pad(rec.ciphertext.pt, sz)]

\* lines 288-322: the plaintext pt, cut or grown to size, goes back under the
\* fresh key k and the exclusive lock of the handle
TruncSwap(s, idx, size, pt, k) ==
    LET rec  == DataAt(s.data, idx)
        n    == rec.f.node
        sz   == s.nodes[n].Size
        new  == IF size <= sz THEN SubSeq(pt, 1, size) ELSE Pad(pt, size)
    IN  IF rec.nil \/ n = NoNode THEN Ret(s, "PANIC")
        ELSE IF size <= sz /\ Len(pt) < size THEN Ret(s, "PANIC")
        ELSE IF rec.f.mtx # Unlocked THEN Ret(s, "BLOCKED")
        ELSE Ret([s EXCEPT !.data[idx + 1].ciphertext = Encrypt(new, k),
                           !.data[idx + 1].key = Seal(k),
                           !.nodes[n].Size = Len(new)], "OK")

Truncate(s, name, size, k, fault) ==
    LET f == TruncFind(s, name, size)
        r == TruncRead(s, f.idx, size, fault)
    IN  IF f.res # "" THEN Ret(s, f.res)
        ELSE IF r.res # "" THEN Ret(r.s, r.res)
        ELSE TruncSwap(r.s, f.idx, size, r.pt, k)

(* ------------------------------- inputs ------------------------------- *)

Names == {"a", "b"}

AbsPaths ==
    {RootPath, Path(TRUE, <<"a">>), Path(TRUE, <<"b">>), Path(TRUE, <<"a", "b">>)}

RelPaths == {DotPath}

\* not clean: Clean("/b/../a") = "/a"
OddPaths == {Path(TRUE, <<"b", "..", "a">>)}

Paths == AbsPaths \cup RelPaths \cup OddPaths

\* 0444, 0222
Perms == {OS_ALL_R, OS_ALL_W}

\* the flag words and permissions handed to OpenFile; perm is read only
\* under O_CREATE, and O_EXCL only with it
OpenArgs ==
    {<<Flag(a, FALSE, FALSE, t), {}>> :
        a \in {O_RDONLY, O_WRONLY, O_RDWR}, t \in BOOLEAN}
    \cup
    {<<Flag(x[1], TRUE, x[2], x[3]), perm>> :
        x \in {O_RDONLY, O_WRONLY, O_RDWR} \X BOOLEAN \X BOOLEAN, perm \in Perms}

\* MkdirAll is also sent one level deeper
MkdirAllPaths == Paths \cup {Path(TRUE, <<"a", "b", "b">>)}

\* the directories Chdir is sent to
ChdirPaths == {RootPath, Path(TRUE, <<"a">>)}

Plain == {<<1, 2>>}

\* <<uid, gid>>
Owners == {<<1, 2>>}

\* the file and the sizes of the truncates of the goroutines
ParPaths == {Path(TRUE, <<"a">>)}

ParSizes == {1, 2}

\* the sizes Truncate is sent
Sizes == {-1, 0, 1, 2, 3}

\* the keys Truncate draws: none that a Write has drawn
NewKeys == {2}

Faults == {"none", "open", "decrypt"}

Keys == {1}

(* --------------------------- the state machine ------------------------ *)

NoFlag == Flag("", FALSE, FALSE, FALSE)

\* what the caller holds of the call in progress: the operation, its
\* arguments, and its result once it is back
Call(op, p, q, flag, perm, res, node, val) ==
    [op |-> op, p |-> p, q |-> q, flag |-> flag, perm |-> perm,
     res |-> res, node |-> node, val |-> val]

Idle == Call("", EmptyPath, EmptyPath, NoFlag, {}, "", NoNode, EmptyPath)

\* the goroutines that call into the FileSystem beside the caller of the
\* operations above
Threads == {1, 2}

\* where such a goroutine is in its call (at), the call (op, p, q, size, k),
\* its local variables (idx, pt, node, parent, file), its result (res); and
\* what else happened to the file of a Truncate since it began: the
\* plaintext then (base), the sizes of the truncates of other goroutines
\* that went through meanwhile (during), whether anything else did (mixed)
Rest ==
    [at |-> "rest", op |-> "", p |-> EmptyPath, q |-> EmptyPath, size |-> 0,
     k |-> 0, idx |-> 0, pt |-> <<>>, node |-> NoNode, parent |-> NoNode,
     file |-> "", res |-> "", base |-> <<>>, during |-> <<>>, mixed |-> FALSE]

Init ==
    /\ nodes = NewFS.nodes
    /\ cwd = NewFS.cwd
    /\ dir = NewFS.dir
    /\ ino = NewFS.ino
    /\ symlinks = NewFS.symlinks
    /\ data = NewFS.data
    /\ mtx = NewFS.mtx
    /\ bufs = NewFS.bufs
    /\ halted = FALSE
    /\ last = Idle
    /\ pc = [t \in Threads |-> Rest]

\* a result no caller gets: the process has died or never comes back
Dead(res) == res \in {"PANIC", "FATAL", "DIVERGE", "BLOCKED"}

\* goroutine t is inside a call
Busy(t) == pc[t].at \notin {"rest", "done"}

\* no goroutine is inside a call
Quiet == \A t \in Threads : ~Busy(t)

\* the FileSystem is left as s
Stores(s) ==
    /\ nodes' = s.nodes
    /\ cwd' = s.cwd
    /\ dir' = s.dir
    /\ ino' = s.ino
    /\ symlinks' = s.symlinks
    /\ data' = s.data
    /\ mtx' = s.mtx
    /\ bufs' = s.bufs

\* a whole operation of the caller has run while a Truncate was under way
Disturbed ==
    [t \in Threads |->
        IF Busy(t) /\ pc[t].op = "truncate" THEN [pc[t] EXCEPT !.mixed = TRUE]
        ELSE pc[t]]

\* the call ends leaving the FileSystem as s
Becomes(s, call) ==
    /\ nodes' = s.nodes
    /\ cwd' = s.cwd
    /\ dir' = s.dir
    /\ ino' = s.ino
    /\ symlinks' = s.symlinks
    /\ data' = s.data
    /\ mtx' = s.mtx
    /\ bufs' = s.bufs
    /\ halted' = Dead(call.res)
    /\ last' = call
    /\ pc' = Disturbed

Ready == ~halted /\ last = Idle

DoMkdir ==
    \E p \in Paths :
        LET r == Mkdir(FS, p, Umask)
        IN  /\ Ready
            /\ r.s.ino <= MaxIno
            /\ Becomes(r.s, Call("mkdir", p, EmptyPath, NoFlag, Umask, r.res,
                                 NoNode, EmptyPath))

DoMkdirAll ==
    \E p \in MkdirAllPaths :
        LET r == MkdirAll(FS, p, Umask)
        IN  /\ Ready
            /\ r.s.ino <= MaxIno
            /\ Becomes(r.s, Call("mkdirAll", p, EmptyPath, NoFlag, Umask, r.res,
                                 NoNode, EmptyPath))

DoOpenFile ==
    \E p \in Paths, a \in OpenArgs :
        LET r == OpenFile(FS, p, a[1], a[2])
        IN  /\ Ready
            /\ r.s.ino <= MaxIno
            /\ Becomes(r.s, Call("open", p, EmptyPath, a[1], a[2], r.res,
                                 NoNode, EmptyPath))

DoCreate ==
    \E p \in Paths :
        LET r == Create(FS, p)
        IN  /\ Ready
            /\ r.s.ino <= MaxIno
            /\ Becomes(r.s, Call("create", p, EmptyPath, Flag(O_RDWR, TRUE, FALSE, TRUE),
                                 Perm0644, r.res, NoNode, EmptyPath))

DoWrite ==
    \E n \in DOMAIN nodes, b \in Plain, k \in Keys :
        LET r == Write(FS, n, b, k)
        IN  /\ Ready
            /\ HasHandle(FS, n)
            /\ Becomes(r.s, Call("write", EmptyPath, EmptyPath, NoFlag, {}, r.res,
                                 n, EmptyPath))

DoRemove ==
    \E p \in Paths :
        LET r == Remove(FS, p)
        IN  /\ Ready
            /\ Becomes(r.s, Call("remove", p, EmptyPath, NoFlag, {}, r.res,
                                 NoNode, EmptyPath))

DoRemoveAll ==
    \E p \in Paths :
        LET r == RemoveAll(FS, p)
        IN  /\ Ready
            /\ Becomes(r.s, Call("removeAll", p, EmptyPath, NoFlag, {}, r.res,
                                 NoNode, EmptyPath))

DoRename ==
    \E p \in Paths, q \in Paths :
        LET r == Rename(FS, p, q)
        IN  /\ Ready
            /\ Becomes(r.s, Call("rename", p, q, NoFlag, {}, r.res,
                                 NoNode, EmptyPath))

DoChdir ==
    \E p \in ChdirPaths :
        LET r == Chdir(FS, p)
        IN  /\ Ready
            /\ Becomes(r.s, Call("chdir", p, EmptyPath, NoFlag, {}, r.res,
                                 NoNode, EmptyPath))

DoStat ==
    \E p \in Paths :
        LET r == Stat(FS, p)
        IN  /\ Ready
            /\ Becomes(FS, Call("stat", p, EmptyPath, NoFlag, {}, r.res,
                                r.node, EmptyPath))

DoLstat ==
    \E p \in Paths :
        LET r == Lstat(FS, p)
        IN  /\ Ready
            /\ Becomes(FS, Call("lstat", p, EmptyPath, NoFlag, {}, r.res,
                                r.node, EmptyPath))

DoReadlink ==
    \E p \in Paths :
        LET r == Readlink(FS, p)
        IN  /\ Ready
            /\ Becomes(r.s, Call("readlink", p, EmptyPath, NoFlag, {}, r.res,
                                 NoNode, r.val))

\* symlink(p, q): q is the link, p its target
DoSymlink ==
    \E p \in Paths, q \in Paths :
        LET r == Symlink(FS, p, q)
        IN  /\ Ready
            /\ r.s.ino <= MaxIno
            /\ Becomes(r.s, Call("symlink", p, q, NoFlag, {}, r.res,
                                 NoNode, EmptyPath))

\* what the caller holds of a chown or lchown: the ids as well
Owned(call, o) == call @@ [uid |-> o[1], gid |-> o[2]]

DoChown ==
    \E p \in Paths, o \in Owners :
        LET r == Chown(FS, p, o[1], o[2])
        IN  /\ Ready
            /\ Becomes(r.s, Owned(Call("chown", p, EmptyPath, NoFlag, {}, r.res,
                                       NoNode, EmptyPath), o))

DoLchown ==
    \E p \in Paths, o \in Owners :
        LET r == Lchown(FS, p, o[1], o[2])
        IN  /\ Ready
            /\ Becomes(r.s, Owned(Call("lchown", p, EmptyPath, NoFlag, {}, r.res,
                                       NoNode, EmptyPath), o))

\* what the caller holds of a truncate: the size as well, and what the
\* locked-memory layer did to the call
Sized(call, n, fault) == call @@ [size |-> n, fault |-> fault]

DoTruncate ==
    \E p \in Paths, n \in Sizes, k \in NewKeys, fault \in Faults :
        LET r == Truncate(FS, p, n, k, fault)
        IN  /\ Ready
            /\ r.s.bufs <= MaxLeak
            /\ \A i \in DOMAIN r.s.data : r.s.data[i].f.mtx.r <= MaxLeak
            /\ Becomes(r.s, Sized(Call("truncate", p, EmptyPath, NoFlag, {}, r.res,
                                      NoNode, EmptyPath), n, fault))

\* the caller takes the result and is free to call again
Return ==
    /\ ~halted
    /\ last # Idle
    /\ last' = Idle
    /\ UNCHANGED <<nodes, cwd, dir, ino, symlinks, data, mtx, bufs, halted, pc>>

(* ------------------- Truncate, one step at a time --------------------- *)

\* a Truncate begun by goroutine t
Began(p, n, k) == [Rest EXCEPT !.op = "truncate", !.p = p, !.size = n, !.k = k]

\* the call c is over with result res: its local variables are gone
Ended(c, res) ==
    [Rest EXCEPT !.at = "done", !.op = c.op, !.p = c.p, !.q = c.q,
                 !.size = c.size, !.res = res]

\* lines 257-268
TruncateFind(t) ==
    \E p \in ParPaths, n \in ParSizes, k \in NewKeys :
        LET f     == TruncFind(FS, p, n)
            stale == \E u \in Threads \ {t} :
                        Busy(u) /\ (pc[u].mixed \/ pc[u].during # <<>>)
        IN  /\ Ready
            /\ pc[t].at = "rest"
            /\ pc' = [pc EXCEPT ![t] =
                        IF f.res # "" THEN Ended(Began(p, n, k), f.res)
                        ELSE [Began(p, n, k) EXCEPT
                                 !.at = "read", !.idx = f.idx, !.mixed = stale,
                                 !.base = DataAt(data, f.idx).ciphertext.pt]]
            /\ halted' = Dead(f.res)
            /\ UNCHANGED <<nodes, cwd, dir, ino, symlinks, data, mtx, bufs, last>>

\* lines 270-286
TruncateRead(t) ==
    LET r == TruncRead(FS, pc[t].idx, pc[t].size, "none")
    IN  /\ Ready
        /\ pc[t].at = "read"
        /\ r.res # "BLOCKED"
        /\ Stores(r.s)
        /\ pc' = [pc EXCEPT ![t] =
                    IF r.res = "" THEN [@ EXCEPT !.at = "swap", !.pt = r.pt]
                    ELSE Ended(@, r.res)]
        /\ halted' = Dead(r.res)
        /\ UNCHANGED last

\* lines 288-322; the other goroutines that are inside a Truncate take note
TruncateSwap(t) ==
    LET r == TruncSwap(FS, pc[t].idx, pc[t].size, pc[t].pt, pc[t].k)
    IN  /\ Ready
        /\ pc[t].at = "swap"
        /\ r.res # "BLOCKED"
        /\ Stores(r.s)
        /\ pc' = [u \in Threads |->
                    IF u = t THEN Ended(pc[t], r.res)
                    ELSE IF r.res = "OK" /\ Busy(u) /\ pc[u].op = "truncate"
                         THEN IF pc[u].idx = pc[t].idx /\ pc[u].during = <<>>
                              THEN [pc[u] EXCEPT !.during = <<pc[t].size>>]
                              ELSE [pc[u] EXCEPT !.mixed = TRUE]
                    ELSE pc[u]]
        /\ halted' = Dead(r.res)
        /\ UNCHANGED last

\* goroutine t takes its result and is free to call again
Rests(t) ==
    /\ ~halted
    /\ pc[t].at = "done"
    /\ pc' = [pc EXCEPT ![t] = Rest]
    /\ UNCHANGED <<nodes, cwd, dir, ino, symlinks, data, mtx, bufs, halted, last>>

\* O_CREATE|O_RDWR|O_TRUNC, the flags of Create (line 153)
CreateFlag == Flag(O_RDWR, TRUE, FALSE, TRUE)

\* OpenFile lines 156-222, no lock taken: the path and its parent are
\* resolved. A name that resolves, "/" or ".", or a parent that does not
\* resolve, end the call here (the rest of OpenFile in one step); otherwise
\* the file is to be created in parent under filename
OpenResolve(t) ==
    \E p \in ParPaths :
        LET wd    == IF IsAbs(p) THEN Root ELSE dir
            r     == Resolve(nodes, wd, p)
            sp    == Split(p)
            pr    == Resolve(nodes, wd, Clean(sp.dir))
            makes == p \notin {RootPath, DotPath} /\ pr.err = "" /\ r.err # ""
            whole == OpenFile(FS, p, CreateFlag, Perm0644)
            c     == [Rest EXCEPT !.op = "open", !.p = p]
        IN  /\ Ready
            /\ pc[t].at = "rest"
            /\ IF makes
               THEN /\ pc' = [pc EXCEPT ![t] = [c EXCEPT !.at = "new",
                                                         !.parent = pr.node,
                                                         !.file = sp.file]]
                    /\ UNCHANGED <<nodes, cwd, dir, ino, symlinks, data, mtx,
                                   bufs, halted>>
               ELSE /\ Stores(whole.s)
                    /\ pc' = [pc EXCEPT ![t] = Ended(c, whole.res)]
                    /\ halted' = Dead(whole.res)
            /\ UNCHANGED last

\* line 223: node = fs.ino.New(fs.Umask & perm)
OpenNew(t) ==
    /\ Ready
    /\ pc[t].at = "new"
    /\ ino < MaxIno
    /\ Len(nodes) < MaxHeap
    /\ nodes' = Append(nodes, New(ino + 1, Umask \cap Perm0644))
    /\ ino' = ino + 1
    /\ pc' = [pc EXCEPT ![t] = [@ EXCEPT !.at = "link", !.node = Len(nodes) + 1]]
    /\ UNCHANGED <<cwd, dir, symlinks, data, mtx, bufs, halted, last>>

\* lines 224-231: parent.Link(filename, node); on its error fs.ino.SubIno()
\* and return, else fs.data = append(fs.data, &sealedFile{})
OpenLink(t) ==
    LET l == Link(nodes, pc[t].parent, pc[t].file, pc[t].node)
    IN  /\ Ready
        /\ pc[t].at = "link"
        /\ IF l.err # ""
           THEN /\ ino' = ino - 1
                /\ pc' = [pc EXCEPT ![t] = Ended(@, l.err)]
                /\ UNCHANGED <<nodes, data>>
           ELSE /\ nodes' = l.nodes
                /\ data' = Append(data, EmptyFile)
                /\ pc' = [pc EXCEPT ![t] = [@ EXCEPT !.at = "bind"]]
                /\ UNCHANGED ino
        /\ UNCHANGED <<cwd, dir, symlinks, mtx, bufs, halted, last>>

\* lines 232-253
OpenBinds(t) ==
    LET r == OpenBind(FS, pc[t].node, CreateFlag)
    IN  /\ Ready
        /\ pc[t].at = "bind"
        /\ Stores(r.s)
        /\ pc' = [pc EXCEPT ![t] = Ended(@, r.res)]
        /\ halted' = Dead(r.res)
        /\ UNCHANGED last

\* Remove lines 375-390, no lock taken: the child is resolved and tested
RemoveCheck(t) ==
    \E p \in ParPaths :
        LET rel == ~IsAbs(p)
            wd  == IF rel THEN dir ELSE Root
            abs == IF rel THEN Join(cwd, p) ELSE p
            r   == Resolve(nodes, wd, p)
            c   == [Rest EXCEPT !.op = "remove", !.p = p]
        IN  /\ Ready
            /\ pc[t].at = "rest"
            /\ pc' = [pc EXCEPT ![t] =
                        IF r.err # "" THEN Ended(c, r.err)
                        ELSE IF /\ IsDir(nodes[r.node])
                                /\ Cardinality(DOMAIN nodes[r.node].Dir) > 2
                             THEN Ended(c, "NOT_EMPTY")
                        ELSE [c EXCEPT !.at = "unlink", !.q = abs, !.node = r.node]]
            /\ UNCHANGED <<nodes, cwd, dir, ino, symlinks, data, mtx, bufs,
                           halted, last>>

\* Remove lines 392-402: the parent is resolved and the name unlinked
RemoveUnlink(t) ==
    LET pr == ParentOf(FS, pc[t].q)
        u  == Unlink(nodes, pr.node, Split(pc[t].q).file)
    IN  /\ Ready
        /\ pc[t].at = "unlink"
        /\ IF pr.err # ""
           THEN /\ pc' = [pc EXCEPT ![t] = Ended(@, pr.err)]
                /\ UNCHANGED nodes
           ELSE /\ nodes' = u.nodes
                /\ pc' = [pc EXCEPT ![t] =
                            Ended(@, IF u.err = "" THEN "OK" ELSE u.err)]
        /\ UNCHANGED <<cwd, dir, ino, symlinks, data, mtx, bufs, halted, last>>

Next ==
    \/ DoMkdir
    \/ DoMkdirAll
    \/ DoOpenFile
    \/ DoWrite
    \/ DoRemove
    \/ DoRemoveAll
    \/ DoRename
    \/ DoChdir
    \/ DoStat
    \/ DoLstat
    \/ DoReadlink
    \/ DoSymlink
    \/ Return

Spec == Init /\ [][Next]_vars

\* the operations that make inodes, and the two that set their owner
NextOwn ==
    \/ DoMkdir
    \/ DoOpenFile
    \/ DoSymlink
    \/ DoChown
    \/ DoLchown
    \/ Return

SpecOwn == Init /\ [][NextOwn]_vars

\* regular files made, written and truncated by name
NextTrunc ==
    \/ DoCreate
    \/ DoWrite
    \/ DoTruncate
    \/ Return

SpecTrunc == Init /\ [][NextTrunc]_vars

\* files made and written by the caller, and truncated by name by two
\* goroutines in parallel
NextTruncRace ==
    \/ Quiet /\ DoCreate
    \/ Quiet /\ DoWrite
    \/ Return
    \/ \E t \in Threads : TruncateFind(t)
    \/ \E t \in Threads : TruncateRead(t)
    \/ \E t \in Threads : TruncateSwap(t)
    \/ \E t \in Threads : Rests(t)

SpecTruncRace == Init /\ [][NextTruncRace]_vars

\* Mkdir by the caller while goroutines are inside OpenFile (creating) and
\* Remove
NextRace ==
    \/ Len(nodes) < MaxHeap /\ DoMkdir
    \/ Return
    \/ \E t \in Threads : OpenResolve(t)
    \/ \E t \in Threads : OpenNew(t)
    \/ \E t \in Threads : OpenLink(t)
    \/ \E t \in Threads : OpenBinds(t)
    \/ \E t \in Threads : RemoveCheck(t)
    \/ \E t \in Threads : RemoveUnlink(t)
    \/ \E t \in Threads : Rests(t)

SpecRace == Init /\ [][NextRace]_vars

(* ------------------------------- claims ------------------------------- *)

\* the path is written in its cleaned form
IsClean(p) == Clean(p) = p

\* the step is a call of op that came back with res
Did(op, res) == last.op = op /\ last.res = res

\* the step left the FileSystem value as it was
Kept == FS' = FS

\* Rename as called on the root: "/" itself, or a path that names it
RenamesRoot == last.op = "rename" /\ Abs(cwd, last.p) = RootPath

\* after the step the entry of last.p is found under last.q, and no longer
\* under last.p
Moved ==
    /\ Lstat(FS', last'.q).res = "OK"
    /\ Lstat(FS', last'.q).node = Lstat(FS, last'.p).node
    /\ Lstat(FS', last'.p).res # "OK"

\* C1 as stated: a successful rename(old, new) with old # new as strings
\* leaves new resolving to old's inode and old not resolving; a rename of the
\* root fails and changes nothing.
C1_RenameAsStated ==
    [][/\ (Did("rename", "OK")' /\ last'.p # last'.q) => Moved
       /\ RenamesRoot' => (last'.res # "OK" /\ Kept)]_vars

\* C1 amended: the same, for old and new that name different entries, that
\* is, that differ once made absolute and cleaned.
C1_RenameMoves ==
    [][/\ (Did("rename", "OK")' /\ Abs(cwd, last'.p) # Abs(cwd, last'.q)) => Moved
       /\ RenamesRoot' => (last'.res # "OK" /\ Kept)]_vars

\* C1 witness: a rename of one entry onto another name has succeeded
C1_Witness ==
    /\ Did("rename", "OK")
    /\ Abs(cwd, last.p) # Abs(cwd, last.q)
    /\ Lstat(FS, last.q).res = "OK"
    /\ Lstat(FS, last.p).res # "OK"

\* the errors of a path that does not resolve
ResolveErrors == {"NO_SUCH_ENTRY", "NOT_A_DIRECTORY"}

\* C2 as stated: every stat returns a non-symlink inode, or fails with LOOP
\* or because resolution failed, also when symlinks form a cycle; lstat
\* returns the inode the path itself resolves to.
C2_StatTerminates ==
    /\ last.op = "stat" =>
          \/ last.res = "OK" /\ ~IsSymlink(nodes[last.node])
          \/ last.res \in {"LOOP"} \cup ResolveErrors
    /\ Did("lstat", "OK") /\ last.p # RootPath =>
          last.node = Resolve(nodes, Root, TrimLeft(Abs(cwd, last.p))).node

\* C3 as stated: an open that returns an error leaves the FileSystem as it
\* was: no payload dropped, no size changed, no inode allocated or linked.
C3_FailedOpenKeepsState ==
    [][(last'.op = "open" /\ last'.res # "OK" /\ ~Dead(last'.res)) => Kept]_vars

\* the access the claim says the mode bits deny
NeedsDenied(access, mode) ==
    \/ access = O_RDONLY /\ mode \cap OS_ALL_R = {}
    \/ access = O_WRONLY /\ mode \cap OS_ALL_W = {}
    \/ access = O_RDWR /\ (mode \cap OS_ALL_R = {} \/ mode \cap OS_ALL_W = {})

\* C4 as stated, for paths in cleaned form: an open of a path that resolves
\* to an inode whose mode bits deny the requested access does not succeed,
\* whatever the other flags: it fails with PERMISSION (or with the EXISTS or
\* IS_DIRECTORY that come first).
C4_PermissionEnforced ==
    [][(/\ last'.op = "open"
        /\ IsClean(last'.p)
        /\ Lstat(FS, last'.p).res = "OK"
        /\ NeedsDenied(last'.flag.access, nodes[Lstat(FS, last'.p).node].Mode))
       => last'.res \in {"PERMISSION", "EXISTS", "IS_DIRECTORY", "PANIC"}]_vars

\* the directory that should hold the entry of p exists
ParentResolves(s, p) == Lstat(s, Dir(Abs(s.cwd, p))).res = "OK"

\* C5 as stated, for p in cleaned form: mkdir(p) fails with EXISTS when p
\* resolves and with NO_SUCH_ENTRY when its parent is missing, a failed mkdir
\* changes nothing, and after a successful one p resolves to a new directory
\* whose parent is a directory.
C5_MkdirContract ==
    [][(last'.op = "mkdir" /\ IsClean(last'.p)) =>
        /\ Lstat(FS, last'.p).res = "OK" => last'.res = "EXISTS"
        /\ ~ParentResolves(FS, last'.p) => last'.res = "NO_SUCH_ENTRY"
        /\ last'.res # "OK" => Kept
        /\ last'.res = "OK" =>
              /\ Lstat(FS', last'.p).res = "OK"
              /\ Lstat(FS', last'.p).node \notin DOMAIN nodes
              /\ IsDir(nodes'[Lstat(FS', last'.p).node])
              /\ ParentResolves(FS', last'.p)
              /\ IsDir(nodes'[Lstat(FS', Dir(Abs(cwd, last'.p))).node])]_vars

\* the first error other than EXISTS among the Mkdir calls of MkdirAll
RECURSIVE FirstError(_, _, _)
FirstError(s, ps, perm) ==
    IF ps = <<>> THEN "OK"
    ELSE LET r == Mkdir(s, Head(ps), perm)
         IN  IF r.res \notin {"OK", "EXISTS"} THEN r.res
             ELSE FirstError(r.s, Tail(ps), perm)

\* p and every ancestor of p resolve to directories
AllDirs(s, p) ==
    \A n \in 0 .. Len(Abs(s.cwd, p).segs) :
        LET r == Lstat(s, Path(TRUE, SubSeq(Abs(s.cwd, p).segs, 1, n)))
        IN  r.res = "OK" /\ IsDir(s.nodes[r.node])

\* C6 as stated, for a p that does not resolve yet: mkdirAll(p) returns the
\* first error other than EXISTS of its mkdir calls, and returns success only
\* if p and every ancestor of p then resolve to directories.
C6_MkdirAllReportsErrors ==
    [][(last'.op = "mkdirAll" /\ IsClean(last'.p) /\ Lstat(FS, last'.p).res # "OK") =>
        /\ last'.res = FirstError(FS, <<RootPath>> \o Prefixes(Abs(cwd, last'.p), 1),
                                  last'.perm)
        /\ last'.res = "OK" => AllDirs(FS', last'.p)]_vars

\* C7 as stated: a second mkdirAll(p) right after the first leaves the tree,
\* the allocator and the length of the payload store as the first left them.
C7_MkdirAllIdempotent ==
    last.op = "mkdirAll" =>
        LET again == MkdirAll(FS, last.p, last.perm).s
        IN  /\ again.nodes = nodes
            /\ again.ino = ino
            /\ Len(again.data) = Len(data)

\* the path resolves to a directory that holds more than "." and ".."
NonEmptyDir(s, p) ==
    LET r == Lstat(s, p)
    IN  /\ r.res = "OK"
        /\ IsDir(s.nodes[r.node])
        /\ ~IsSymlink(s.nodes[r.node])
        /\ (DOMAIN s.nodes[r.node].Dir) \ {".", ".."} # {}

\* q names something below the directory that p names
Under(s, p, q) ==
    LET a == Abs(s.cwd, p).segs
        b == Abs(s.cwd, q).segs
    IN  Len(b) > Len(a) /\ SubSeq(b, 1, Len(a)) = a

\* after the step, stat of last.p and of all that resolved below it fails
\* with NO_SUCH_ENTRY
SubtreeGone ==
    /\ Stat(FS', last'.p).res = "NO_SUCH_ENTRY"
    /\ \A q \in Paths :
          (Under(FS, last'.p, q) /\ Lstat(FS, q).res = "OK")
              => Stat(FS', q).res = "NO_SUCH_ENTRY"

PlainPath(p) == IsAbs(p) /\ IsClean(p) /\ p # RootPath

C9_RemoveAllMissingOk ==
    [][(last'.op = "removeAll" /\ IsClean(last'.p) /\ Lstat(FS, last'.p).res # "OK")
       => (last'.res = "OK" /\ Kept)]_vars

\* the directory that holds the entry of p is there, and is a directory
ParentIsDir(s, p) ==
    /\ ParentResolves(s, p)
    /\ IsDir(s.nodes[Lstat(s, Dir(Abs(s.cwd, p))).node])

\* after the step last.q resolves, and the symlink table holds last.p,
\* verbatim, for its inode: the string a readlink(last.q) looks up
Linked ==
    /\ Lstat(FS', last'.q).res = "OK"
    /\ Target(FS', nodes'[Lstat(FS', last'.q).node].Ino) = last'.p

\* C10 as stated: symlink(target, linkpath) fails with EXISTS exactly when
\* linkpath exists and is no symlink; otherwise it succeeds for every target,
\* dangling or not, and stores it verbatim as the string that
\* readlink(linkpath) looks up.
C10_SymlinkNoValidation ==
    [][(last'.op = "symlink" /\ IsClean(last'.q) /\ ParentIsDir(FS, last'.q)) =>
         IF Lstat(FS, last'.q).res = "OK"
            /\ ~IsSymlink(nodes[Lstat(FS, last'.q).node])
         THEN last'.res = "EXISTS"
         ELSE last'.res = "OK" /\ Linked]_vars

\* the inodes that a path from the root leads to
Live(s) == Subtree(s.nodes, Root)

\* C13 as stated: whatever creating operations have run, failed ones
\* included, the payload store is one longer than the highest inode number
\* handed out, and every regular file in the tree has a record of its own at
\* the index of its number.
C13_StoreAligned ==
    /\ Len(data) = ino + 1
    /\ \A n \in Live(FS) :
          (~IsDir(nodes[n]) /\ ~IsSymlink(nodes[n]))
              => /\ InRange(data, nodes[n].Ino)
                 /\ ~DataAt(data, nodes[n].Ino).nil

\* C14 as stated: readlink releases the lock in the mode it took it in, so
\* it comes back, and then the lock has no holder.
C14_ReadlinkLockSymmetric ==
    [][(last'.op = "readlink" /\ Lstat(FS, last'.p).res = "OK")
       => (last'.res = "OK" /\ mtx' = Unlocked)]_vars

\* the path resolves, without following a link, to something that is no
\* directory
NamesLeaf(s, p) ==
    /\ Lstat(s, p).res = "OK"
    /\ ~IsDir(s.nodes[Lstat(s, p).node])

\* nothing is kept for inode number i: no ciphertext, no key, no link target
Forgotten(s, i) ==
    /\ InRange(s.data, i) =>
          /\ DataAt(s.data, i).ciphertext = NoCipher
          /\ DataAt(s.data, i).key = NoKey
    /\ i \notin DOMAIN s.symlinks

\* C19 as stated: when remove or removeAll has unlinked a regular file or a
\* symlink, the payload store holds no ciphertext and no key at the index of
\* its inode number, and the symlink table no entry for it.
C19_PayloadDiesWithInode ==
    [][(/\ last'.op \in {"remove", "removeAll"}
        /\ last'.res = "OK"
        /\ PlainPath(last'.p)
        /\ NamesLeaf(FS, last'.p))
       => Forgotten(FS', nodes[Lstat(FS, last'.p).node].Ino)]_vars

Owner(s, n) == <<s.nodes[n].Uid, s.nodes[n].Gid>>

\* the path names a symlink whose target stat finds, elsewhere
NamesLink(s, p) ==
    /\ Lstat(s, p).res = "OK"
    /\ IsSymlink(s.nodes[Lstat(s, p).node])
    /\ Stat(s, p).res = "OK"
    /\ Stat(s, p).node # Lstat(s, p).node

\* C11 as stated: on a path that ends in a symlink, chown sets the owner of
\* the inode the link leads to and leaves the link's own, lchown sets the
\* link's own and leaves the target's; on any other path the two do the same.
C11_ChownFollows ==
    [][/\ (last'.op = "chown" /\ IsClean(last'.p) /\ NamesLink(FS, last'.p))
          => /\ last'.res = "OK"
             /\ Owner(FS', Stat(FS, last'.p).node) = <<last'.uid, last'.gid>>
             /\ Owner(FS', Lstat(FS, last'.p).node) = Owner(FS, Lstat(FS, last'.p).node)
       /\ (last'.op = "lchown" /\ IsClean(last'.p) /\ NamesLink(FS, last'.p))
          => /\ last'.res = "OK"
             /\ Owner(FS', Lstat(FS, last'.p).node) = <<last'.uid, last'.gid>>
             /\ Owner(FS', Stat(FS, last'.p).node) = Owner(FS, Stat(FS, last'.p).node)
       /\ (last'.op \in {"chown", "lchown"} /\ IsClean(last'.p)
           /\ ~(Lstat(FS, last'.p).res = "OK"
                /\ IsSymlink(nodes[Lstat(FS, last'.p).node])))
          => Chown(FS, last'.p, last'.uid, last'.gid)
                = Lchown(FS, last'.p, last'.uid, last'.gid)]_vars

\* the path names a regular file in good order: its record is there and
\* bound to a handle on it, nobody holds the lock of the handle, and the
\* ciphertext opens under the key to as many bytes as the size says
GoodFile(s, p) ==
    /\ PlainPath(p)
    /\ NamesLeaf(s, p)
    /\ LET n   == Lstat(s, p).node
           rec == DataAt(s.data, s.nodes[n].Ino)
       IN  /\ ~IsSymlink(s.nodes[n])
           /\ InRange(s.data, s.nodes[n].Ino)
           /\ ~rec.nil
           /\ rec.f = Handle(n)
           /\ rec.ciphertext.k = rec.key.enclave
           /\ Len(rec.ciphertext.pt) = s.nodes[n].Size

\* the record and the size of the file that p names
Payload(s, p) == DataAt(s.data, s.nodes[Lstat(s, p).node].Ino)

SizeOf(s, p) == s.nodes[Lstat(s, p).node].Size

\* the first Min(n, Len(b)) bytes of b, then zeros up to n
Resized(b, n) == Pad(SubSeq(b, 1, IF n <= Len(b) THEN n ELSE Len(b)), n)

\* C12, first part: truncate(name, n), n >= 0 and not the size the file has,
\* leaves the file with size n and the plaintext cut or zero-filled to n.
C12_TruncateResizes ==
    [][(/\ last'.op = "truncate"
        /\ last'.fault = "none"
        /\ GoodFile(FS, last'.p)
        /\ last'.size >= 0
        /\ last'.size # SizeOf(FS, last'.p))
       => /\ last'.res = "OK"
          /\ SizeOf(FS', last'.p) = last'.size
          /\ Payload(FS', last'.p).ciphertext.pt
                = Resized(Payload(FS, last'.p).ciphertext.pt, last'.size)
          /\ Payload(FS', last'.p).ciphertext.k = Payload(FS', last'.p).key.enclave]_vars

\* C12 as stated: besides, truncate with n < 0 fails, and truncate with n
\* the size the file has is a no-op; both leave ciphertext, key and size as
\* they were.
C12_TruncateAsStated ==
    [][(/\ last'.op = "truncate"
        /\ last'.fault = "none"
        /\ GoodFile(FS, last'.p))
       => /\ last'.size < 0 => (last'.res # "OK" /\ Kept)
          /\ last'.size = SizeOf(FS, last'.p) => (last'.res = "OK" /\ Kept)
          /\ (last'.size >= 0 /\ last'.size # SizeOf(FS, last'.p)) =>
                /\ last'.res = "OK"
                /\ SizeOf(FS', last'.p) = last'.size
                /\ Payload(FS', last'.p).ciphertext.pt
                      = Resized(Payload(FS, last'.p).ciphertext.pt, last'.size)]_vars

\* no key buffer is open and no lock of a handle is held
AllReleased(s) ==
    /\ s.bufs = 0
    /\ \A i \in DOMAIN s.data : s.data[i].f.mtx = Unlocked

\* C17 as stated: however a truncate by name comes back, with success or
\* with an error, the key buffer it opened is destroyed and the locks it took
\* are released; and so no later write or truncate of the file waits for ever.
C17_TruncateReleases ==
    [][/\ (last'.op = "truncate" /\ ~Dead(last'.res) /\ AllReleased(FS))
          => AllReleased(FS')
       /\ (last'.op \in {"truncate", "write"}) => last'.res # "BLOCKED"]_vars

\* C18 as stated: when another truncate of the same file has gone through
\* while the truncate of goroutine t was under way, and nothing else has
\* touched the file, the file ends with the size and the plaintext that the
\* two truncates give when run one after the other, in one of the two orders.
C18_TruncatesLinearizable ==
    [][\A t \in Threads :
          (/\ pc[t].at = "swap"
           /\ pc'[t].at = "done"
           /\ pc'[t].res = "OK"
           /\ ~pc[t].mixed
           /\ Len(pc[t].during) = 1)
          => LET n   == pc[t].size
                 m   == pc[t].during[1]
                 rec == DataAt(data', pc[t].idx)
             IN  /\ rec.ciphertext.pt \in
                       {Resized(Resized(pc[t].base, n), m),
                        Resized(Resized(pc[t].base, m), n)}
                 /\ nodes'[rec.f.node].Size = Len(rec.ciphertext.pt)]_vars

\* C16: inode numbers are never reused, whatever the interleaving of the
\* creating operations and however a failed link rolls the allocator back:
\* no two inodes of the tree carry the same number
C16_InoNeverReused ==
    \A a \in Live(FS), b \in Live(FS) : a # b => nodes[a].Ino # nodes[b].Ino

\* C15: a structural mutation resolves and mutates under the exclusive lock,
\* so it never acts on a tree another operation changed in between: a
\* Remove that ends well has not unlinked a directory that holds entries
C15_MutationsExclusive ==
    [][\A t \in Threads :
          (/\ pc[t].at = "unlink" /\ pc'[t].at = "done" /\ pc'[t].res = "OK"
           /\ IsDir(nodes[pc[t].node]))
          => Cardinality(DOMAIN nodes[pc[t].node].Dir) <= 2]_vars

====
